---- MODULE Spec2Model ----
(***************************************************************************)
(* The cart store (StateContext, src/unnamed/part_003) and the article     *)
(* catalog view model (InsightsPage, src/app/insights/page.tsx).           *)
(*                                                                         *)
(* Strings are TLA+ strings, with \o for concatenation and SubSeq for the   *)
(* characters.  Prices and quantities are integers.                        *)
(***************************************************************************)
EXTENDS Integers, Sequences, FiniteSets, TLC

VARIABLES
    cartItems,          \* useState<Product[]>([])      part_003:44
    totalPrice,         \* useState(0)                  part_003:45
    totalQuantities,    \* useState(0)                  part_003:46
    qty,                \* useState(1)                  part_003:47
    product,            \* the record object a caller keeps and passes to onAdd
    showCart,           \* useState(false)             part_003:43
    active,             \* useState(false)             part_003:49
    overflowY,          \* document.body.style.overflowY
    last,               \* history: the last operation, its arguments, the store before it
    mounted,            \* InsightsPage is on screen
    searchQuery,        \* useState("")                 page.tsx:225
    selectedCategory,   \* useState("All")              page.tsx:226
    currentPage,        \* useState(1)                  page.tsx:227
    pseoPages,          \* useState<Article[]>([])      page.tsx:228
    loading,            \* useState(true)               page.tsx:229
    fetching,           \* the request of the mount effect is outstanding
    response,           \* what the endpoint answers to that request
    consoleErrors,      \* calls of console.error
    requests,           \* calls of fetch during the visit
    seen,               \* history: the last action of the visit and the view before it
    visit,              \* the number of the component instance: 1 for the first visit
    stale               \* the outstanding request of an instance that was torn down

scrollVars == <<showCart, active, overflowY>>
cartVars == <<cartItems, totalPrice, totalQuantities, qty, product, last,
              showCart, active, overflowY>>
visitVars == <<visit, stale>>
catalogVars == <<mounted, searchQuery, selectedCategory, currentPage, pseoPages,
                 loading, fetching, response, consoleErrors, requests, seen,
                 visit, stale>>
vars == <<cartItems, totalPrice, totalQuantities, qty, product, last,
          showCart, active, overflowY,
          mounted, searchQuery, selectedCategory, currentPage, pseoPages,
          loading, fetching, response, consoleErrors, requests, seen,
          visit, stale>>

----------------------------------------------------------------------------
(* Bounds of the model *)

MaxUnits == 3           \* |totalQuantities|
MaxIdLen == 12          \* characters of a product id
MaxRemote == 2          \* records the endpoint returns
MaxQty == 3             \* the quantity selector
MaxVisits == 2          \* visits of the catalog page

Abs(n) == IF n < 0 THEN 0 - n ELSE n

----------------------------------------------------------------------------
(* Inputs *)

Weights == {"500g"}
Prices == {100, 200}
Quantities == {0, 1, 2}
PriceCap == MaxUnits * 200

NameOf(id) == IF id = "p1" THEN "Blueberries" ELSE "Jam"
ImageOf(id) == IF id = "p1" THEN "/p1.jpg" ELSE "/p2.jpg"

\* interface Product
Product(id, price, quantity, weight) ==
    [id |-> id, name |-> NameOf(id), price |-> price, quantity |-> quantity,
     weight |-> weight, image |-> ImageOf(id)]

\* records a caller builds anew for a call
FreshProducts == {Product("p2", pr, 1, w) : pr \in Prices, w \in Weights}

NoProduct == Product("", 0, 0, "")

----------------------------------------------------------------------------
(* Array helpers *)

IsPrefix(s, t) == Len(s) <= Len(t) /\ SubSeq(t, 1, Len(s)) = s

\* as findIndex, with the ids compared by prefix in place of ===
findIndexByPrefix(items, id) ==
    IF \E i \in 1..Len(items) : IsPrefix(id, items[i].id)
    THEN CHOOSE i \in 1..Len(items) :
            IsPrefix(id, items[i].id) /\ \A j \in 1..(i - 1) : ~IsPrefix(id, items[j].id)
    ELSE 0

\* Array.prototype.find and findIndex by id (item.id === id): the place of
\* the first match, 1-based; 0 where find gives undefined and findIndex -1
findIndex(items, id) ==
    IF \E i \in 1..Len(items) : items[i].id = id
    THEN CHOOSE i \in 1..Len(items) :
            items[i].id = id /\ \A j \in 1..(i - 1) : items[j].id # id
    ELSE 0

\* items.filter((item) => item.id !== id)
filterOut(items, id) == SelectSeq(items, LAMBDA item : item.id # id)

\* as splice, with the item put at the end
spliceAtEnd(items, index, item) == Append(items, item)

\* items.splice(index, 0, item) with index the 0-based JavaScript index
splice(items, index, item) ==
    LET at == IF index > Len(items) THEN Len(items) ELSE index
    IN SubSeq(items, 1, at) \o <<item>> \o SubSeq(items, at + 1, Len(items))

----------------------------------------------------------------------------
(* The handlers.  cl is what the handler's closure holds (the state of the *)
(* render it was created in), st the state its updates are applied to.     *)

Store == [cartItems |-> cartItems, totalPrice |-> totalPrice,
          totalQuantities |-> totalQuantities]
Closure == [cartItems |-> cartItems, qty |-> qty]

\* `${product.id}-${product.weight}`
uniqueId(prod) == prod.id \o "-" \o prod.weight

toastText(q, prod) == [qty |-> q, name |-> prod.name, weight |-> prod.weight]

\* the updaters handed to setTotalPrice and setTotalQuantities
addTotalPriceUnit(prevTotalPrice, prod, quantity) == prevTotalPrice + prod.price
addTotalPrice(prevTotalPrice, prod, quantity) == prevTotalPrice + prod.price * quantity
addTotalQuantities(prevTotalQuantities, quantity) == prevTotalQuantities + quantity

removeTotalPriceUnit(prevTotalPrice, foundProduct) == prevTotalPrice - foundProduct.price
removeTotalPrice(prevTotalPrice, foundProduct) ==
    prevTotalPrice - foundProduct.price * foundProduct.quantity
removeTotalQuantities(prevTotalQuantities, foundProduct) ==
    prevTotalQuantities - foundProduct.quantity

\* foundProduct.quantity > 1
mayDecrementAlways(foundProduct) == TRUE
mayDecrement(foundProduct) == foundProduct.quantity > 1

\* as onAdd, with the quantity argument in the toast
onAddToastsQuantity(cl, st, prod, quantity) ==
    LET uid == uniqueId(prod)
        checkProductInCart == findIndex(cl.cartItems, uid) # 0
        price == addTotalPrice(st.totalPrice, prod, quantity)
        quantities == addTotalQuantities(st.totalQuantities, quantity)
    IN IF checkProductInCart
       THEN [cartItems |->
                [i \in 1..Len(cl.cartItems) |->
                    IF uid = cl.cartItems[i].id
                    THEN [cl.cartItems[i] EXCEPT !.quantity = @ + quantity]
                    ELSE cl.cartItems[i]],
             totalPrice |-> price,
             totalQuantities |-> quantities,
             product |-> prod,
             toast |-> toastText(quantity, prod)]
       ELSE LET written == [prod EXCEPT !.quantity = quantity, !.id = uid]
            IN [cartItems |-> Append(cl.cartItems, written),
                totalPrice |-> price,
                totalQuantities |-> quantities,
                product |-> written,
                toast |-> toastText(quantity, written)]

\* as onAdd, with the price of the call written to the line item
onAddTakesPrice(cl, st, prod, quantity) ==
    LET uid == uniqueId(prod)
        checkProductInCart == findIndex(cl.cartItems, uid) # 0
        price == addTotalPrice(st.totalPrice, prod, quantity)
        quantities == addTotalQuantities(st.totalQuantities, quantity)
    IN IF checkProductInCart
       THEN [cartItems |->
                [i \in 1..Len(cl.cartItems) |->
                    IF uid = cl.cartItems[i].id
                    THEN [cl.cartItems[i] EXCEPT !.quantity = @ + quantity, !.price = prod.price]
                    ELSE cl.cartItems[i]],
             totalPrice |-> price,
             totalQuantities |-> quantities,
             product |-> prod,
             toast |-> toastText(cl.qty, prod)]
       ELSE LET written == [prod EXCEPT !.quantity = quantity, !.id = uid]
            IN [cartItems |-> Append(cl.cartItems, written),
                totalPrice |-> price,
                totalQuantities |-> quantities,
                product |-> written,
                toast |-> toastText(cl.qty, written)]

onAdd(cl, st, prod, quantity) ==
    LET uid == uniqueId(prod)
        checkProductInCart == findIndex(cl.cartItems, uid) # 0
        price == addTotalPrice(st.totalPrice, prod, quantity)
        quantities == addTotalQuantities(st.totalQuantities, quantity)
    IN IF checkProductInCart
       THEN [cartItems |->
                [i \in 1..Len(cl.cartItems) |->
                    IF uid = cl.cartItems[i].id
                    THEN [cl.cartItems[i] EXCEPT !.quantity = @ + quantity]
                    ELSE cl.cartItems[i]],
             totalPrice |-> price,
             totalQuantities |-> quantities,
             product |-> prod,
             toast |-> toastText(cl.qty, prod)]
       ELSE LET written == [prod EXCEPT !.quantity = quantity, !.id = uid]
            IN [cartItems |-> Append(cl.cartItems, written),
                totalPrice |-> price,
                totalQuantities |-> quantities,
                product |-> written,
                toast |-> toastText(cl.qty, written)]

onRemove(cl, st, prod) ==
    LET at == findIndex(cl.cartItems, prod.id)
    IN IF at = 0
       THEN st
       ELSE LET foundProduct == cl.cartItems[at]
            IN [cartItems |-> filterOut(cl.cartItems, prod.id),
                totalPrice |-> removeTotalPrice(st.totalPrice, foundProduct),
                totalQuantities |-> removeTotalQuantities(st.totalQuantities, foundProduct)]

toggleCartItemQuanitity(cl, st, id, value) ==
    LET at == findIndex(cl.cartItems, id)
    IN IF at = 0
       THEN st
       ELSE LET foundProduct == cl.cartItems[at]
                index == at - 1
                newCartItems == filterOut(cl.cartItems, id)
            IN IF value = "inc"
               THEN [cartItems |-> splice(newCartItems, index,
                                      [foundProduct EXCEPT !.quantity = @ + 1]),
                     totalPrice |-> st.totalPrice + foundProduct.price,
                     totalQuantities |-> st.totalQuantities + 1]
               ELSE IF value = "dec" /\ mayDecrement(foundProduct)
               THEN [cartItems |-> splice(newCartItems, index,
                                      [foundProduct EXCEPT !.quantity = @ - 1]),
                     totalPrice |-> st.totalPrice - foundProduct.price,
                     totalQuantities |-> st.totalQuantities - 1]
               ELSE st

incQty(prevQty) == prevQty + 1
decQty(prevQty) == IF prevQty - 1 < 1 THEN 1 ELSE prevQty - 1

\* the effect on [showCart, active]: what it writes to bodyStyle.overflowY
scrollEffectCartOnly(show, act) == IF show THEN "hidden" ELSE "auto"
scrollEffect(show, act) == IF show \/ act THEN "hidden" ELSE "auto"
scrollDeps == <<showCart, active>>

----------------------------------------------------------------------------
(* The cart store as a state machine: one action per call of an operation, *)
(* followed by the re-render that makes the new state current.             *)

NoToast == [qty |-> 0, name |-> "", weight |-> ""]
NoStore == [cartItems |-> <<>>, totalPrice |-> 0, totalQuantities |-> 0]

\* The history of a call: the operation, its arguments, the store before it
\* (pre); for a decrement that directly follows an increment of the same id,
\* the store before that increment (incPre, with afterInc); and, as long as
\* only onAdd has been called, the sums of its arguments.
Record(op, id, prod, quantity, toast) ==
    LET follows == op = "dec" /\ last.op = "inc" /\ last.id = id
        addsOnly == op = "add" /\ last.addsOnly
    IN [op |-> op, id |-> id, product |-> prod, quantity |-> quantity,
        toast |-> toast, pre |-> Store,
        afterInc |-> follows,
        incPre |-> IF follows THEN last.pre ELSE NoStore,
        separate |-> NoStore,
        addsOnly |-> addsOnly,
        addedQuantity |-> IF addsOnly THEN last.addedQuantity + quantity ELSE 0,
        addedPrice |-> IF addsOnly THEN last.addedPrice + prod.price * quantity ELSE 0]

InBounds(st) ==
    /\ Abs(st.totalQuantities) <= MaxUnits
    /\ Abs(st.totalPrice) <= PriceCap
    /\ \A i \in 1..Len(st.cartItems) :
          /\ Len(st.cartItems[i].id) <= MaxIdLen
          /\ Abs(st.cartItems[i].quantity) <= MaxUnits

\* the id of no line item: a product id without the weight
UnknownId == "p1"

\* what a caller hands to onRemove: a line item, or a record that matches none
RemoveArgs == {cartItems[i] : i \in 1..Len(cartItems)}
                \cup {Product(UnknownId, 100, 1, "500g")}

\* ids a caller hands to toggleCartItemQuanitity
IdPool == {cartItems[i].id : i \in 1..Len(cartItems)} \cup {UnknownId}

CartInit ==
    /\ cartItems = <<>>
    /\ totalPrice = 0
    /\ totalQuantities = 0
    /\ qty = 1
    /\ product = Product("p1", 100, 1, "500g")
    /\ showCart = FALSE
    /\ active = FALSE
    /\ overflowY = scrollEffect(FALSE, FALSE)
    /\ last = [op |-> "none", id |-> "", product |-> NoProduct, quantity |-> 0,
               toast |-> NoToast, pre |-> NoStore,
               afterInc |-> FALSE, incPre |-> NoStore, separate |-> NoStore,
               addsOnly |-> TRUE, addedQuantity |-> 0, addedPrice |-> 0]

Commit(st) ==
    /\ InBounds(st)
    /\ cartItems' = st.cartItems
    /\ totalPrice' = st.totalPrice
    /\ totalQuantities' = st.totalQuantities

\* onAdd(p, quantity) with a record built for the call
OnAddFresh ==
    \E p \in FreshProducts, quantity \in Quantities :
        LET r == onAdd(Closure, Store, p, quantity)
        IN /\ Commit(r)
           /\ last' = Record("add", uniqueId(p), p, quantity, r.toast)
           /\ UNCHANGED <<qty, product, scrollVars, catalogVars>>

\* onAdd(product, qty) with the record the caller keeps: the second
\* assignment of the else branch writes to that record
OnAddKept ==
    LET r == onAdd(Closure, Store, product, qty)
    IN /\ Commit(r)
       /\ product' = r.product
       /\ last' = Record("add", uniqueId(product), product, qty, r.toast)
       /\ UNCHANGED <<qty, scrollVars, catalogVars>>

OnRemove ==
    \E prod \in RemoveArgs :
        /\ Commit(onRemove(Closure, Store, prod))
        /\ last' = Record("remove", prod.id, NoProduct, 0, NoToast)
        /\ UNCHANGED <<qty, product, scrollVars, catalogVars>>

Toggle ==
    \E id \in IdPool, value \in {"inc", "dec"} :
        /\ Commit(toggleCartItemQuanitity(Closure, Store, id, value))
        /\ last' = Record(value, id, NoProduct, 0, NoToast)
        /\ UNCHANGED <<qty, product, scrollVars, catalogVars>>

\* products a handler of a component passes in one turn
TurnProducts == {Product("p2", 100, 1, "500g"), Product("p3", 100, 1, "500g")}

\* the calls a handler makes in one turn: onAdd, onRemove
Calls ==
    {[op |-> "add", product |-> p, quantity |-> 1] : p \in TurnProducts}
    \cup {[op |-> "remove", product |-> prod, quantity |-> 0] : prod \in RemoveArgs}

\* one call, made with the closure cl, its updates applied to st
call(cl, st, c) ==
    IF c.op = "add"
    THEN LET r == onAdd(cl, st, c.product, c.quantity)
         IN [cartItems |-> r.cartItems, totalPrice |-> r.totalPrice,
             totalQuantities |-> r.totalQuantities]
    ELSE IF c.op = "remove"
    THEN onRemove(cl, st, c.product)
    ELSE toggleCartItemQuanitity(cl, st, c.product.id, c.op)

\* two calls made by one event handler: both use the handlers of the current
\* render, whose closure holds the cartItems of that render, and the store
\* re-renders after the second.  separate is what the second call gives when
\* it is made in a later turn, with the handlers of the render after the first.
SameTurn ==
    \E c1, c2 \in Calls :
        LET s1 == call(Closure, Store, c1)
            s2 == call(Closure, s1, c2)
            separate == call([cartItems |-> s1.cartItems, qty |-> qty], s1, c2)
        IN /\ InBounds(separate)
           /\ Commit(s2)
           /\ last' = [Record("turn", c2.product.id, NoProduct, 0, NoToast)
                          EXCEPT !.separate = separate]
           /\ UNCHANGED <<qty, product, scrollVars, catalogVars>>

\* incQty, decQty and the setter setQty, which the Provider hands out as it is
IncQty ==
    /\ qty < MaxQty
    /\ qty' = incQty(qty)
    /\ last' = Record("incQty", "", NoProduct, 0, NoToast)
    /\ UNCHANGED <<cartItems, totalPrice, totalQuantities, product, scrollVars, catalogVars>>

DecQty ==
    /\ qty' = decQty(qty)
    /\ last' = Record("decQty", "", NoProduct, 0, NoToast)
    /\ UNCHANGED <<cartItems, totalPrice, totalQuantities, product, scrollVars, catalogVars>>

SetQty ==
    \E n \in Quantities :
        /\ qty' = n
        /\ last' = Record("setQty", "", NoProduct, n, NoToast)
        /\ UNCHANGED <<cartItems, totalPrice, totalQuantities, product, scrollVars, catalogVars>>

\* the state setters that the Provider hands out as they are
SetCartItems ==
    \E items \in {<<>>, <<Product("p2-500g", 100, 1, "500g")>>} :
        /\ cartItems' = items
        /\ last' = Record("setCartItems", "", NoProduct, 0, NoToast)
        /\ UNCHANGED <<totalPrice, totalQuantities, qty, product, scrollVars, catalogVars>>

SetTotalPrice ==
    \E price \in {0} \cup Prices :
        /\ totalPrice' = price
        /\ last' = Record("setTotalPrice", "", NoProduct, 0, NoToast)
        /\ UNCHANGED <<cartItems, totalQuantities, qty, product, scrollVars, catalogVars>>

SetTotalQuantities ==
    \E quantities \in Quantities :
        /\ totalQuantities' = quantities
        /\ last' = Record("setTotalQuantities", "", NoProduct, 0, NoToast)
        /\ UNCHANGED <<cartItems, totalPrice, qty, product, scrollVars, catalogVars>>

\* the effect runs after a render in which showCart or active has changed
ScrollEffect ==
    overflowY' = IF scrollDeps' # scrollDeps
                 THEN scrollEffect(showCart', active')
                 ELSE overflowY

SetShowCart ==
    \E show \in BOOLEAN :
        /\ showCart' = show
        /\ active' = active
        /\ ScrollEffect
        /\ last' = Record("setShowCart", "", NoProduct, 0, NoToast)
        /\ UNCHANGED <<cartItems, totalPrice, totalQuantities, qty, product, catalogVars>>

SetActive ==
    \E act \in BOOLEAN :
        /\ active' = act
        /\ showCart' = showCart
        /\ ScrollEffect
        /\ last' = Record("setActive", "", NoProduct, 0, NoToast)
        /\ UNCHANGED <<cartItems, totalPrice, totalQuantities, qty, product, catalogVars>>

----------------------------------------------------------------------------
(* The article catalog: the static list *)

staticArticles == <<
    [ id |-> "1",
      slug |-> "global-blueberry-price-trends",
      title |-> "Global Blueberry Wholesale Price Trends 2025-2035",
      excerpt |-> "Market analysis reveals 6-7.2% CAGR growth driven by increas" \o
                 "ing global demand and health consciousness. Discover the fac" \o
                 "tors shaping blueberry prices over the next decade.",
      date |-> "December 2024",
      readTime |-> "8 min read",
      category |-> "Market Analysis",
      image |-> "/images/Blueberry Lifecycle.jpg",
      tags |-> <<"Price Trends", "Market Analysis", "Investment">>,
      source |-> "static" ],
    [ id |-> "6",
      slug |-> "google-trends-blueberry-demand-india",
      title |-> "Google Trends Reveal 9% Growth in Blueberry Interest: India'" \o
               "s Rising Opportunity",
      excerpt |-> "Google search data shows 8.5M monthly searches for blueberri" \o
                 "es with 9% year-over-year growth, highlighting massive untap" \o
                 "ped potential in the Indian market as global demand soars.",
      date |-> "December 2024",
      readTime |-> "6 min read",
      category |-> "Market Research",
      image |-> "/images/Blueberry Plant in a Polyhouse.jpg",
      tags |-> <<"Google Trends", "Market Demand", "India Opportunity">>,
      source |-> "static" ],
    [ id |-> "2",
      slug |-> "blueberry-farming-india",
      title |-> "Why Blueberry Farming is the Future of Agriculture in India",
      excerpt |-> "Explore how blueberry cultivation is transforming Indian agr" \o
                 "iculture with high returns, sustainable practices, and growi" \o
                 "ng domestic demand.",
      date |-> "December 2024",
      readTime |-> "6 min read",
      category |-> "Farming Guide",
      image |-> "/images/Blueberry Rows in Polytunnel in Fruiting Phase.jpg",
      tags |-> <<"India", "Farming", "Sustainability">>,
      source |-> "static" ],
    [ id |-> "3",
      slug |-> "health-benefits-blueberries",
      title |-> "The Science Behind Blueberries: Health Benefits That Drive D" \o
               "emand",
      excerpt |-> "From antioxidants to brain health, discover why health-consc" \o
                 "ious consumers are driving unprecedented demand for blueberr" \o
                 "ies worldwide.",
      date |-> "December 2024",
      readTime |-> "5 min read",
      category |-> "Health & Nutrition",
      image |-> "/images/Blueberry Pudding.jpg",
      tags |-> <<"Health", "Nutrition", "Consumer Trends">>,
      source |-> "static" ],
    [ id |-> "4",
      slug |-> "blueberry-varieties-india",
      title |-> "Best Blueberry Varieties for Indian Climate: A Comprehensive" \o
               " Guide",
      excerpt |-> "Learn about the most suitable blueberry cultivars for differ" \o
                 "ent Indian regions, their yield potential, and climate requi" \o
                 "rements.",
      date |-> "December 2024",
      readTime |-> "7 min read",
      category |-> "Technical Guide",
      image |-> "/images/The Life Cycle of a Blueberry.jpeg",
      tags |-> <<"Varieties", "Climate", "Technical">>,
      source |-> "static" ],
    [ id |-> "5",
      slug |-> "roi-analysis-blueberry-farming",
      title |-> "ROI Analysis: Blueberry Farming vs Traditional Crops",
      excerpt |-> "A detailed financial comparison showing why blueberry farmin" \o
                 "g offers 5X returns compared to traditional Indian crops.",
      date |-> "December 2024",
      readTime |-> "10 min read",
      category |-> "Financial Analysis",
      image |-> "/images/hero-desktop.jpg",
      tags |-> <<"ROI", "Financial", "Comparison">>,
      source |-> "static" ],
    [ id |-> "12",
      slug |-> "blueberry-export-opportunities-india",
      title |-> "India's Blueberry Export Potential: Tapping Global Markets",
      excerpt |-> "Explore the untapped potential of blueberry exports from Ind" \o
                 "ia to international markets. Learn about global demand, qual" \o
                 "ity standards, and profit margins.",
      date |-> "December 2024",
      readTime |-> "8 min read",
      category |-> "Export Strategy",
      image |-> "/images/Blueberry Lifecycle.jpg",
      tags |-> <<"Export", "Global Markets", "International Trade">>,
      source |-> "static" ],
    [ id |-> "13",
      slug |-> "climate-controlled-farming-benefits",
      title |-> "Climate-Controlled Blueberry Farming: 5X Higher Yields",
      excerpt |-> "Discover how polyhouse cultivation and climate control syste" \o
                 "ms boost blueberry yields by 500% compared to open-field far" \o
                 "ming.",
      date |-> "December 2024",
      readTime |-> "6 min read",
      category |-> "Technology",
      image |-> "/images/Blueberry Plant in a Polyhouse.jpg",
      tags |-> <<"Climate Control", "Polyhouse", "Technology">>,
      source |-> "static" ],
    [ id |-> "14",
      slug |-> "government-subsidies-blueberry-farming",
      title |-> "Government Subsidies for Blueberry Farming: Save Up to 50%",
      excerpt |-> "Complete guide to agricultural subsidies, grants, and suppor" \o
                 "t schemes available for blueberry farming in India. Reduce y" \o
                 "our investment by up to 50%.",
      date |-> "December 2024",
      readTime |-> "9 min read",
      category |-> "Government Schemes",
      image |-> "/images/Blueberry Rows in Polytunnel in Fruiting Phase.jpg",
      tags |-> <<"Subsidies", "Government", "Financial Support">>,
      source |-> "static" ],
    [ id |-> "15",
      slug |-> "organic-blueberry-certification-india",
      title |-> "Organic Blueberry Certification: Premium Pricing Strategy",
      excerpt |-> "Learn how organic certification can increase your blueberry " \o
                 "prices by 40-60%. Step-by-step guide to organic farming and " \o
                 "certification process.",
      date |-> "December 2024",
      readTime |-> "7 min read",
      category |-> "Organic Farming",
      image |-> "/images/The Life Cycle of a Blueberry.jpeg",
      tags |-> <<"Organic", "Certification", "Premium Pricing">>,
      source |-> "static" ],
    [ id |-> "7",
      slug |-> "../tea-estate-partnership",
      title |-> "Tea Estate Partnership: Convert Your Tea Garden to Blueberry" \o
               " Farm",
      excerpt |-> "Transform your tea estate into a high-yield blueberry farm w" \o
                 "ith 6x higher profits. Explore sub-lease, joint venture, or " \o
                 "land sale options with 20-35% ROI.",
      date |-> "December 2024",
      readTime |-> "12 min read",
      category |-> "Partnership Opportunities",
      image |-> "/images/Blueberry Plant in a Polyhouse.jpg",
      tags |-> <<"Tea Estate", "Partnership", "Land Conversion">>,
      source |-> "static" ],
    [ id |-> "8",
      slug |-> "../investment/west-bengal/siliguri",
      title |-> "Blueberry Farming Investment in Siliguri: Complete Guide",
      excerpt |-> "Discover why Siliguri offers ideal conditions for blueberry " \o
                 "farming with excellent climate, soil pH, and government supp" \o
                 "ort. Calculate your ROI for this emerging opportunity.",
      date |-> "December 2024",
      readTime |-> "10 min read",
      category |-> "Location Investment",
      image |-> "/images/The Life Cycle of a Blueberry.jpeg",
      tags |-> <<"Siliguri", "West Bengal", "Investment Calculator">>,
      source |-> "static" ],
    [ id |-> "9",
      slug |-> "../investment/assam/guwahati",
      title |-> "Guwahati Blueberry Farm Investment: Northeast India Opportun" \o
               "ity",
      excerpt |-> "Explore blueberry farming investment opportunities in Guwaha" \o
                 "ti with detailed climate analysis, soil conditions, and proj" \o
                 "ected returns in Assam's agricultural hub.",
      date |-> "December 2024",
      readTime |-> "10 min read",
      category |-> "Location Investment",
      image |-> "/images/Blueberry Rows in Polytunnel in Fruiting Phase.jpg",
      tags |-> <<"Guwahati", "Assam", "Northeast India">>,
      source |-> "static" ],
    [ id |-> "10",
      slug |-> "../investment/meghalaya/shillong",
      title |-> "Shillong Blueberry Cultivation: Hill Station Farming Advanta" \o
               "ge",
      excerpt |-> "Leverage Shillong's unique hill climate and acidic soil for " \o
                 "premium blueberry cultivation. Learn about Meghalaya's agric" \o
                 "ultural policies and investment incentives.",
      date |-> "December 2024",
      readTime |-> "9 min read",
      category |-> "Location Investment",
      image |-> "/images/Blueberry Plant in a Polyhouse.jpg",
      tags |-> <<"Shillong", "Meghalaya", "Hill Station Farming">>,
      source |-> "static" ],
    [ id |-> "11",
      slug |-> "../investment/sikkim/gangtok",
      title |-> "Gangtok Blueberry Farming: High-Altitude Organic Advantage",
      excerpt |-> "Discover why Gangtok's high-altitude climate and organic far" \o
                 "ming tradition make it perfect for premium blueberry cultiva" \o
                 "tion with excellent export potential.",
      date |-> "December 2024",
      readTime |-> "9 min read",
      category |-> "Location Investment",
      image |-> "/images/Blueberry Lifecycle.jpg",
      tags |-> <<"Gangtok", "Sikkim", "High Altitude">>,
      source |-> "static" ]
>>

itemsPerPage == 12

----------------------------------------------------------------------------
(* The article catalog: strings *)

UpperCase == "ABCDEFGHIJKLMNOPQRSTUVWXYZ"
LowerCase == "abcdefghijklmnopqrstuvwxyz"
UpperSet == {SubSeq(UpperCase, i, i) : i \in 1..Len(UpperCase)}
Lowered == [c \in UpperSet |->
              LET i == CHOOSE i \in 1..Len(UpperCase) : SubSeq(UpperCase, i, i) = c
              IN SubSeq(LowerCase, i, i)]

\* String.prototype.toLowerCase, character by character
RECURSIVE lower(_)
lower(s) ==
    IF Len(s) = 0 THEN ""
    ELSE IF Len(s) = 1 THEN (IF s \in UpperSet THEN Lowered[s] ELSE s)
    ELSE LET half == Len(s) \div 2
         IN lower(SubSeq(s, 1, half)) \o lower(SubSeq(s, half + 1, Len(s)))

toLowerCaseIdentity(s) == s
toLowerCase(s) == lower(s)

\* String.prototype.includes
includes(s, t) == \E i \in 0..(Len(s) - Len(t)) : SubSeq(s, i + 1, i + Len(t)) = t

\* s.replace(/\s+/g, '-'): every maximal run of white space becomes one "-"
RECURSIVE replaceSpaces(_)
replaceSpaces(s) ==
    IF Len(s) = 0 THEN ""
    ELSE IF Head(s) # " " THEN Head(s) \o replaceSpaces(Tail(s))
    ELSE IF Len(s) > 1 /\ SubSeq(s, 2, 2) = " " THEN replaceSpaces(Tail(s))
    ELSE "-" \o replaceSpaces(Tail(s))

MonthNames == <<"January", "February", "March", "April", "May", "June", "July",
                "August", "September", "October", "November", "December">>

\* toLocaleDateString('en-US', { month: 'long', year: 'numeric' }) of a
\* timestamp given as its calendar month and year
toLocaleDateString(createdAt) == MonthNames[createdAt.month] \o " " \o createdAt.year

stockImages == <<"Blueberry Lifecycle.jpg", "Blueberry Plant in a Polyhouse.jpg",
                 "Blueberry Rows in Polytunnel in Fruiting Phase.jpg",
                 "The Life Cycle of a Blueberry.jpeg">>

\* random is Math.floor(Math.random() * 4)
convertPSEOToArticle(seoPage, random) ==
    [ id |-> seoPage.id,
      slug |-> "../investment/" \o replaceSpaces(toLowerCase(seoPage.state))
                  \o "/" \o replaceSpaces(toLowerCase(seoPage.city)),
      title |-> seoPage.metaTitle,
      excerpt |-> seoPage.metaDescription,
      date |-> toLocaleDateString(seoPage.createdAt),
      readTime |-> "10 min read",
      category |-> "Location Investment",
      image |-> "/images/" \o stockImages[random + 1],
      tags |-> <<seoPage.city, seoPage.state, "Investment Guide">>,
      source |-> "pseo" ]

----------------------------------------------------------------------------
(* The article catalog: inputs *)

\* what the user types into the search box
Queries == {"", "roi", "Tea", "trends", "GUWAHATI guide"}

\* rows of the endpoint's table: the first repeats the id and the place of a
\* static article, the second is a place of its own
seoRows == <<
    [ id |-> "8", state |-> "West Bengal", city |-> "Siliguri",
      metaTitle |-> "Siliguri Blueberry Farming ROI",
      metaDescription |-> "Returns of a blueberry farm in Siliguri.",
      createdAt |-> [month |-> 12, year |-> "2024"] ],
    [ id |-> "cm1", state |-> "Assam", city |-> "Guwahati",
      metaTitle |-> "Guwahati Guide",
      metaDescription |-> "Tea estates turned to blueberry farms.",
      createdAt |-> [month |-> 3, year |-> "2025"] ] >>

\* the first m rows of the table, which repeats after its last row
Rows(m) == [i \in 1..m |-> seoRows[((i - 1) % Len(seoRows)) + 1]]

\* the answers of GET /api/seo/all-pages: fetch rejects; a status that is
\* not ok; a body without the pages field; a body with pages
Responses ==
    {[kind |-> "network-error", ok |-> FALSE, hasPages |-> FALSE, pages |-> <<>>],
     [kind |-> "http-error", ok |-> FALSE, hasPages |-> FALSE, pages |-> <<>>],
     [kind |-> "no-pages", ok |-> TRUE, hasPages |-> FALSE, pages |-> <<>>]}
    \cup {[kind |-> "pages", ok |-> TRUE, hasPages |-> TRUE, pages |-> Rows(m)] :
             m \in 0..MaxRemote}

NoResponse == [kind |-> "none", ok |-> FALSE, hasPages |-> FALSE, pages |-> <<>>]

----------------------------------------------------------------------------
(* The article catalog: what a render derives from the state *)

allArticlesDeduplicated ==
    staticArticles \o
        SelectSeq(pseoPages,
                  LAMBDA p : \A i \in 1..Len(staticArticles) : staticArticles[i].id # p.id)
allArticles == staticArticles \o pseoPages

RECURSIVE Distinct(_)
\* the order of first appearance, as the Set constructor keeps it
Distinct(seq) ==
    IF seq = <<>> THEN <<>>
    ELSE LET front == Distinct(SubSeq(seq, 1, Len(seq) - 1))
             x == seq[Len(seq)]
         IN IF \E i \in 1..Len(front) : front[i] = x THEN front ELSE Append(front, x)

\* as categories, taken from the records the search text and the category keep
categoriesOfFiltered ==
    <<"All">> \o Distinct(LET kept == SelectSeq(allArticles,
                                   LAMBDA a : /\ includes(toLowerCase(a.title),
                                                          toLowerCase(searchQuery))
                                              /\ (selectedCategory = "All"
                                                    \/ a.category = selectedCategory))
                          IN [i \in 1..Len(kept) |-> kept[i].category])
\* as categories, without the entry for all records
categoriesWithoutAll == Distinct([i \in 1..Len(allArticles) |-> allArticles[i].category])
categories == <<"All">> \o Distinct([i \in 1..Len(allArticles) |-> allArticles[i].category])

matchesSearchNoTags(article, query) ==
    \/ includes(toLowerCase(article.title), toLowerCase(query))
    \/ includes(toLowerCase(article.excerpt), toLowerCase(query))
matchesSearch(article, query) ==
    \/ includes(toLowerCase(article.title), toLowerCase(query))
    \/ includes(toLowerCase(article.excerpt), toLowerCase(query))
    \/ \E k \in 1..Len(article.tags) :
          includes(toLowerCase(article.tags[k]), toLowerCase(query))

matchesCategory(article, category) == category = "All" \/ article.category = category

\* matchesSearch of the static articles for the texts of Queries, evaluated once
StaticSet == {staticArticles[i] : i \in 1..Len(staticArticles)}
staticMatches == [a \in StaticSet, q \in Queries |-> matchesSearch(a, q)]

matches(article, query) ==
    IF article \in StaticSet /\ query \in Queries
    THEN staticMatches[article, query]
    ELSE matchesSearch(article, query)

filteredArticles ==
    SelectSeq(allArticles,
              LAMBDA article : /\ matches(article, searchQuery)
                               /\ matchesCategory(article, selectedCategory))

\* Math.ceil(filteredArticles.length / itemsPerPage)
totalFilteredPages == (Len(filteredArticles) + itemsPerPage - 1) \div itemsPerPage
startIndex == (currentPage - 1) * itemsPerPage

\* as slice, with the element at index to taken as well
sliceInclusive(items, from, to) ==
    LET hi == IF to + 1 > Len(items) THEN Len(items) ELSE to + 1
    IN SubSeq(items, from + 1, hi)

\* Array.prototype.slice(from, to) with 0-based bounds
slice(items, from, to) ==
    LET hi == IF to > Len(items) THEN Len(items) ELSE to
    IN SubSeq(items, from + 1, hi)

paginatedArticles == slice(filteredArticles, startIndex, startIndex + itemsPerPage)

Min(a, b) == IF a < b THEN a ELSE b
\* as Math.max, giving its first argument
MaxFirst(a, b) == a
Max(a, b) == IF a > b THEN a ELSE b

----------------------------------------------------------------------------
(* The article catalog as a state machine *)

\* the history of an action of the visit: its name, the page that was
\* current before it, and whether it changed the search text or the category
Seen(op, changed) == [op |-> op, page |-> currentPage, changed |-> changed]

\* the action gives the search text or the category a value it did not have
FiltersChange == searchQuery' # searchQuery \/ selectedCategory' # selectedCategory

\* the dependency arrays of the two effects
fetchDepsWithSearch == <<searchQuery>>
fetchDeps == <<>>
resetDepsCategoryOnly == <<selectedCategory>>
resetDeps == <<searchQuery, selectedCategory>>

\* no request of a torn-down instance
NoStale == [pending |-> FALSE, owner |-> 0, response |-> NoResponse]

\* the page is not on screen
CatalogIdle ==
    /\ mounted = FALSE
    /\ searchQuery = ""
    /\ selectedCategory = "All"
    /\ currentPage = 1
    /\ pseoPages = <<>>
    /\ loading = TRUE
    /\ fetching = FALSE
    /\ response = NoResponse
    /\ consoleErrors = 0
    /\ requests = 0
    /\ seen = Seen("none", FALSE)
    /\ visit = 0
    /\ stale = NoStale

\* the first render and its effects: the request is sent, setCurrentPage(1)
CatalogMounted ==
    /\ mounted = TRUE
    /\ searchQuery = ""
    /\ selectedCategory = "All"
    /\ currentPage = 1
    /\ pseoPages = <<>>
    /\ loading = TRUE
    /\ fetching = TRUE
    /\ response = NoResponse
    /\ consoleErrors = 0
    /\ requests = 1
    /\ seen = Seen("mount", FALSE)
    /\ visit = 1
    /\ stale = NoStale

\* fetch rejects, or data.pages is undefined and data.pages.map throws
Throws(resp) == resp.kind = "network-error" \/ (resp.ok /\ ~resp.hasPages)

\* as fetchPSEOPages, with setLoading(false) at the end of the try block
fetchPSEOPagesNoFinally(prevPages, resp, random) ==
    [pseoPages |-> IF ~Throws(resp) /\ resp.ok
                   THEN [i \in 1..Len(resp.pages) |->
                           convertPSEOToArticle(resp.pages[i], random[i])]
                   ELSE prevPages,
     errors |-> IF Throws(resp) THEN 1 ELSE 0,
     loading |-> Throws(resp)]

\* as fetchPSEOPages, with an entry of the static list shown in place of the
\* remote records when the status is not ok
fetchPSEOPagesErrorEntry(prevPages, resp, random) ==
    [pseoPages |-> IF ~Throws(resp) /\ resp.ok
                   THEN [i \in 1..Len(resp.pages) |->
                           convertPSEOToArticle(resp.pages[i], random[i])]
                   ELSE IF Throws(resp) THEN <<>> ELSE <<staticArticles[1]>>,
     errors |-> IF Throws(resp) THEN 1 ELSE 0,
     loading |-> FALSE]

\* the rest of fetchPSEOPages, run when the request settles: the try block,
\* the catch block where the try block threw, the finally block.  random is
\* what Math.random gives for each record.
fetchPSEOPages(prevPages, resp, random) ==
    [pseoPages |-> IF ~Throws(resp) /\ resp.ok
                   THEN [i \in 1..Len(resp.pages) |->
                           convertPSEOToArticle(resp.pages[i], random[i])]
                   ELSE prevPages,
     errors |-> IF Throws(resp) THEN 1 ELSE 0,
     loading |-> FALSE]

\* the effects of the render that follows an action: the reset effect sets
\* page 1 and the mount effect sends a request, each when one of its
\* dependencies has changed; page is what the action's handler has set
Effects(page) ==
    /\ currentPage' = IF resetDeps' # resetDeps THEN 1 ELSE page
    /\ requests' = IF fetchDeps' # fetchDeps THEN requests + 1 ELSE requests
    /\ fetching' = IF fetchDeps' # fetchDeps THEN TRUE ELSE fetching

\* the endpoint answers the request, or the request fails
Answer ==
    /\ mounted /\ fetching
    /\ response = NoResponse
    /\ response' \in Responses
    /\ UNCHANGED <<mounted, searchQuery, selectedCategory, currentPage, pseoPages,
                   loading, fetching, consoleErrors, requests, seen, visitVars, cartVars>>

FetchSettles ==
    /\ mounted /\ fetching
    /\ response # NoResponse
    /\ \E random \in [1..Len(response.pages) -> 0..3] :
          LET r == fetchPSEOPages(pseoPages, response, random)
          IN /\ pseoPages' = r.pseoPages
             /\ consoleErrors' = consoleErrors + r.errors
             /\ loading' = r.loading
    /\ fetching' = FALSE
    /\ seen' = Seen("fetch", FALSE)
    /\ UNCHANGED <<mounted, searchQuery, selectedCategory, currentPage, response,
                   requests, visitVars, cartVars>>

\* as Controls, with the controls rendered under the spinner as well
ControlsAlways == mounted

\* the render returns the spinner while loading: the controls are not there
Controls == mounted /\ ~loading

\* onChange of the search box
SetSearchQuery ==
    \E q \in Queries :
        /\ Controls
        /\ searchQuery' = q
        /\ selectedCategory' = selectedCategory
        /\ Effects(currentPage)
        /\ seen' = Seen("search", FiltersChange)
        /\ UNCHANGED <<mounted, pseoPages, loading, response, consoleErrors, visitVars, cartVars>>

\* onClick of a category button
SetSelectedCategory ==
    \E k \in 1..Len(categories) :
        /\ Controls
        /\ selectedCategory' = categories[k]
        /\ searchQuery' = searchQuery
        /\ Effects(currentPage)
        /\ seen' = Seen("category", FiltersChange)
        /\ UNCHANGED <<mounted, pseoPages, loading, response, consoleErrors, visitVars, cartVars>>

\* the pagination block is rendered when totalFilteredPages > 1
Pagination == Controls /\ totalFilteredPages > 1

\* a click on Previous; the button is disabled on page 1, where the updater
\* gives page 1 as well
Previous ==
    /\ Pagination
    /\ UNCHANGED <<searchQuery, selectedCategory>>
    /\ Effects(Max(currentPage - 1, 1))
    /\ seen' = Seen("previous", FiltersChange)
    /\ UNCHANGED <<mounted, pseoPages, loading, response, consoleErrors, visitVars, cartVars>>

\* the buttons 1..min(5, totalFilteredPages) and, above 5 pages, the last page
PageButton ==
    \E pageNum \in (1..Min(5, totalFilteredPages))
                     \cup (IF totalFilteredPages > 5 THEN {totalFilteredPages} ELSE {}) :
        /\ Pagination
        /\ UNCHANGED <<searchQuery, selectedCategory>>
        /\ Effects(pageNum)
        /\ seen' = Seen("page", FiltersChange)
        /\ UNCHANGED <<mounted, pseoPages, loading, response, consoleErrors, visitVars, cartVars>>

\* a click on Next; the button is disabled on the last page, where the
\* updater gives the last page as well
NextPage ==
    /\ Pagination
    /\ UNCHANGED <<searchQuery, selectedCategory>>
    /\ Effects(Min(currentPage + 1, totalFilteredPages))
    /\ seen' = Seen("next", FiltersChange)
    /\ UNCHANGED <<mounted, pseoPages, loading, response, consoleErrors, visitVars, cartVars>>

\* the visitor leaves the page: the component is torn down, without a
\* cleanup of the fetch effect, so a request that is outstanding stays so
Unmount ==
    /\ mounted
    /\ ~stale.pending
    /\ mounted' = FALSE
    /\ fetching' = FALSE
    /\ stale' = IF fetching
                THEN [pending |-> TRUE, owner |-> visit, response |-> response]
                ELSE stale
    /\ seen' = Seen("unmount", FALSE)
    /\ UNCHANGED <<searchQuery, selectedCategory, currentPage, pseoPages, loading,
                   response, consoleErrors, requests, visit, cartVars>>

\* the visitor comes back: a new instance with the initial state, whose
\* mount effect sends its request
Mount ==
    /\ ~mounted
    /\ visit < MaxVisits
    /\ mounted' = TRUE
    /\ visit' = visit + 1
    /\ searchQuery' = ""
    /\ selectedCategory' = "All"
    /\ currentPage' = 1
    /\ pseoPages' = <<>>
    /\ loading' = TRUE
    /\ fetching' = TRUE
    /\ response' = NoResponse
    /\ requests' = 1
    /\ seen' = [op |-> "mount", page |-> 1, changed |-> FALSE]
    /\ UNCHANGED <<consoleErrors, stale, cartVars>>

\* setPseoPages and setLoading of the instance owner are those of the state
\* on screen
boundAlways(owner) == TRUE
bound(owner) == mounted /\ owner = visit

\* the request of a torn-down instance settles and the rest of its
\* fetchPSEOPages runs, with the setters of that instance
StaleSettles ==
    /\ stale.pending
    /\ \E resp \in (IF stale.response = NoResponse THEN Responses ELSE {stale.response}) :
        \E random \in [1..Len(resp.pages) -> 0..3] :
          LET r == fetchPSEOPages(pseoPages, resp, random)
          IN /\ pseoPages' = IF bound(stale.owner) THEN r.pseoPages ELSE pseoPages
             /\ loading' = IF bound(stale.owner) THEN r.loading ELSE loading
             /\ consoleErrors' = consoleErrors + r.errors
             /\ stale' = [pending |-> FALSE, owner |-> stale.owner, response |-> resp]
    /\ seen' = Seen("stale", FALSE)
    /\ UNCHANGED <<mounted, searchQuery, selectedCategory, currentPage, fetching,
                   response, requests, visit, cartVars>>

----------------------------------------------------------------------------
(* Specifications: the cart store with the catalog page not visited, and    *)
(* one visit of the catalog page with the cart untouched.                   *)

Init == CartInit /\ CatalogIdle
Next == OnAddFresh \/ OnAddKept \/ OnRemove \/ Toggle
Spec == Init /\ [][Next]_vars

InitCatalog == CartInit /\ CatalogMounted
NextCatalog ==
    \/ Answer
    \/ FetchSettles
    \/ SetSearchQuery
    \/ SetSelectedCategory
    \/ Previous
    \/ PageButton
    \/ NextPage
SpecCatalog == InitCatalog /\ [][NextCatalog]_vars

\* the quantity selector and the two flags, with onAdd
NextSelector ==
    \/ OnAddFresh
    \/ OnAddKept
    \/ IncQty
    \/ DecQty
    \/ SetQty
    \/ SetShowCart
    \/ SetActive
SpecSelector == Init /\ [][NextSelector]_vars

\* visits of the catalog page that end while the request is outstanding
NextVisits ==
    \/ Answer
    \/ FetchSettles
    \/ SetSearchQuery
    \/ Unmount
    \/ Mount
    \/ StaleSettles
SpecVisits == InitCatalog /\ [][NextVisits]_vars

\* the cart with consumers that call the setters of the Provider's value
NextSetters == OnAddFresh \/ SetCartItems \/ SetTotalPrice \/ SetTotalQuantities
SpecSetters == Init /\ [][NextSetters]_vars

\* the cart with handlers that make two calls in one turn
NextTurn == OnRemove \/ SameTurn
SpecTurn == Init /\ [][NextTurn]_vars

\* the visit with the event loop running the continuation of the await once
\* the request has settled
SpecCatalogLive == SpecCatalog /\ WF_vars(FetchSettles)

----------------------------------------------------------------------------
(* Properties of the cart store *)

RECURSIVE SumPrice(_), SumQuantity(_)
SumPrice(items) ==
    IF items = <<>> THEN 0
    ELSE Head(items).price * Head(items).quantity + SumPrice(Tail(items))
SumQuantity(items) ==
    IF items = <<>> THEN 0 ELSE Head(items).quantity + SumQuantity(Tail(items))

ItemIds(items) == {items[i].id : i \in 1..Len(items)}
Places(items, id) == {i \in 1..Len(items) : items[i].id = id}
WasPresent == last.id \in ItemIds(last.pre.cartItems)

\* items without the entry at place at
Without(items, at) ==
    [j \in 1..(Len(items) - 1) |-> IF j < at THEN items[j] ELSE items[j + 1]]

\* the composite key of a record: the product's own id, which is what its
\* id field holds up to the first "-", and the weight
BaseId(id) ==
    IF \E i \in 1..Len(id) : SubSeq(id, i, i) = "-"
    THEN LET dash == CHOOSE i \in 1..Len(id) :
                        /\ SubSeq(id, i, i) = "-"
                        /\ \A j \in 1..(i - 1) : SubSeq(id, j, j) # "-"
         IN SubSeq(id, 1, dash - 1)
    ELSE id
Key(rec) == <<BaseId(rec.id), rec.weight>>

\* C1: in every reachable state totalPrice is the sum of price * quantity
\* over the line items and totalQuantities the sum of their quantities.
C1_TotalsMatchLineItems ==
    /\ totalPrice = SumPrice(cartItems)
    /\ totalQuantities = SumQuantity(cartItems)

\* C2: the cart holds at most one line item per composite key (product id
\* and weight); an add whose product and weight match a line item creates
\* no second line item and raises that item's quantity by the quantity added,
\* so that the quantity is the sum of what was added under the key.
C2_OneLineItemPerKey ==
    /\ \A i, j \in 1..Len(cartItems) :
          i # j => Key(cartItems[i]) # Key(cartItems[j])
    /\ (last.op = "add"
            /\ \E i \in 1..Len(last.pre.cartItems) :
                  Key(last.pre.cartItems[i]) = Key(last.product))
          => /\ Len(cartItems) = Len(last.pre.cartItems)
             /\ \A i \in 1..Len(last.pre.cartItems) :
                   Key(last.pre.cartItems[i]) = Key(last.product)
                      => cartItems[i].quantity
                            = last.pre.cartItems[i].quantity + last.quantity

\* C3: every line item in the cart has quantity >= 1.
C3_QuantityAtLeastOne ==
    \A i \in 1..Len(cartItems) : cartItems[i].quantity >= 1

\* C4: each add raises totalPrice by price * quantity and totalQuantities by
\* quantity, whether it updated a line item or inserted one; from the empty
\* cart, after adds alone, the totals are the sums over all the add calls.
C4_AddRaisesTotals ==
    /\ last.op = "add"
          => /\ totalPrice = last.pre.totalPrice + last.product.price * last.quantity
             /\ totalQuantities = last.pre.totalQuantities + last.quantity
    /\ last.addsOnly
          => /\ totalQuantities = last.addedQuantity
             /\ totalPrice = last.addedPrice

\* an add of two units that updated a line item stored at another price,
\* in a run of adds alone
C4_Witness ==
    /\ last.op = "add" /\ last.addsOnly /\ last.quantity = 2
    /\ \E i \in 1..Len(last.pre.cartItems) :
          /\ last.pre.cartItems[i].id = last.id
          /\ last.pre.cartItems[i].price # last.product.price

\* C5: a remove, increment or decrement addressed to an id that matches no
\* line item leaves the line items, totalPrice and totalQuantities as they were.
C5_UnknownIdIsNoOp ==
    (last.op \in {"remove", "inc", "dec"} /\ ~WasPresent) => Store = last.pre

\* a remove of an unknown id from a cart that holds a line item of that product
C5_Witness ==
    /\ last.op = "remove" /\ ~WasPresent
    /\ \E i \in 1..Len(last.pre.cartItems) :
          IsPrefix(last.id, last.pre.cartItems[i].id)

\* C6: a decrement of a line item of quantity 1 changes nothing; a line item
\* leaves the cart only through a remove addressed to it.
C6_DecrementKeepsItem ==
    /\ (last.op = "dec"
          /\ \E i \in Places(last.pre.cartItems, last.id) :
                last.pre.cartItems[i].quantity = 1)
          => Store = last.pre
    /\ \A id \in ItemIds(last.pre.cartItems) \ ItemIds(cartItems) :
          last.op = "remove" /\ last.id = id

\* a decrement addressed to a line item of quantity 1, with another item present
C6_Witness ==
    /\ last.op = "dec" /\ Len(last.pre.cartItems) = 2
    /\ \E i \in Places(last.pre.cartItems, last.id) :
          last.pre.cartItems[i].quantity = 1

\* C7: an increment of a line item followed by a decrement of the same item
\* returns totalPrice, totalQuantities and the item's quantity to their values
\* before the increment.
C7_IncThenDecRestores ==
    (last.afterInc /\ last.id \in ItemIds(last.incPre.cartItems))
       => /\ totalPrice = last.incPre.totalPrice
          /\ totalQuantities = last.incPre.totalQuantities
          /\ \A i \in Places(last.incPre.cartItems, last.id) :
                /\ i \in Places(cartItems, last.id)
                /\ cartItems[i].quantity = last.incPre.cartItems[i].quantity

\* C8: a remove of a present line item deletes exactly that item, lowers
\* totalPrice by its stored price * quantity and totalQuantities by its stored
\* quantity, and leaves the other line items as they were.
C8_RemoveDeletesOne ==
    (last.op = "remove" /\ WasPresent)
       => \E at \in Places(last.pre.cartItems, last.id) :
             LET item == last.pre.cartItems[at]
             IN /\ cartItems = Without(last.pre.cartItems, at)
                /\ totalPrice = last.pre.totalPrice - item.price * item.quantity
                /\ totalQuantities = last.pre.totalQuantities - item.quantity

\* a remove of the first of several line items, one with quantity above 1
C8_Witness ==
    /\ last.op = "remove" /\ Len(last.pre.cartItems) >= 2
    /\ last.pre.cartItems[1].id = last.id
    /\ last.pre.cartItems[1].quantity >= 2

----------------------------------------------------------------------------
(* Properties of the article catalog *)

\* the same character, or the two cases of one letter
SameLetter(c, d) ==
    \/ c = d
    \/ c \in UpperSet /\ Lowered[c] = d
    \/ d \in UpperSet /\ Lowered[d] = c

\* t occurs in s at some place, the cases of the letters set aside
ContainsIgnoringCase(s, t) ==
    \E i \in 0..(Len(s) - Len(t)) :
        \A k \in 1..Len(t) : SameLetter(SubSeq(s, i + k, i + k), SubSeq(t, k, k))

TextHas(article, query) ==
    \/ ContainsIgnoringCase(article.title, query)
    \/ ContainsIgnoringCase(article.excerpt, query)
    \/ \E k \in 1..Len(article.tags) : ContainsIgnoringCase(article.tags[k], query)

\* TextHas of the static articles for the texts of Queries, evaluated once
staticTextHas == [a \in StaticSet, q \in Queries |-> TextHas(a, q)]

Wanted(article) ==
    /\ IF article \in StaticSet /\ searchQuery \in Queries
       THEN staticTextHas[article, searchQuery]
       ELSE TextHas(article, searchQuery)
    /\ selectedCategory = "All" \/ article.category = selectedCategory

\* the k-th smallest member of a set of numbers
Kth(S, k) == CHOOSE i \in S : Cardinality({j \in S : j <= i}) = k

\* C9: after a fetch that returned M records the merged catalog is the N
\* static records in their order followed by the M converted records in the
\* order returned, N + M entries with nothing dropped; with the search text
\* empty and the category "All" the filtered view has N + M entries.
C9_MergedCatalog ==
    (mounted /\ ~loading /\ response.kind = "pages")
       => LET N == Len(staticArticles)
              M == Len(response.pages)
          IN /\ Len(allArticles) = N + M
             /\ \A i \in 1..N : allArticles[i] = staticArticles[i]
             /\ \A j \in 1..M :
                   /\ allArticles[N + j].id = response.pages[j].id
                   /\ allArticles[N + j].title = response.pages[j].metaTitle
                   /\ allArticles[N + j].excerpt = response.pages[j].metaDescription
                   /\ allArticles[N + j].source = "pseo"
             /\ (searchQuery = "" /\ selectedCategory = "All")
                   => Len(filteredArticles) = N + M

\* a fetch returned two records, one with the id of a static record, and
\* nothing is filtered
C9_Witness ==
    /\ mounted /\ ~loading /\ response.kind = "pages"
    /\ Len(response.pages) = 2
    /\ \E i \in 1..Len(staticArticles) : staticArticles[i].id = response.pages[1].id
    /\ searchQuery = "" /\ selectedCategory = "All"

\* C10: the filtered view is the records of the merged catalog, in catalog
\* order, that contain the search text in the title, the excerpt or a tag
\* (cases set aside) and have the selected category or the selection "All":
\* every such record and no other.
C10_FilteredView ==
    LET idx == {i \in 1..Len(allArticles) : Wanted(allArticles[i])}
    IN /\ Len(filteredArticles) = Cardinality(idx)
       /\ \A k \in 1..Len(filteredArticles) :
             filteredArticles[k] = allArticles[Kth(idx, k)]

\* a search text in another case than the one tag that holds it, together
\* with a category: one static record is left of a catalog with remote records
C10_Witness ==
    /\ mounted /\ ~loading /\ Len(pseoPages) = 2
    /\ searchQuery = "trends" /\ selectedCategory = "Health & Nutrition"
    /\ Len(filteredArticles) = 1
    /\ ~ContainsIgnoringCase(filteredArticles[1].title, searchQuery)
    /\ ~ContainsIgnoringCase(filteredArticles[1].excerpt, searchQuery)

\* C11: whenever an action gives the search text or the selected category a
\* different value, the current page is 1 in the state that action leaves,
\* whatever page was current before it; no other action can come in between.
C11_FilterChangeResetsPage == seen.changed => currentPage = 1

\* a search typed on page 2 that changed the text
C11_Witness ==
    /\ seen.op = "search"
    /\ seen.changed
    /\ seen.page = 2
    /\ currentPage = 1

\* ceil(n / 12) as the least number of pages of 12 that hold n records
PagesFor(n) == CHOOSE k \in 0..n : k * 12 >= n /\ (k - 1) * 12 < n

\* C12: while FilteredView is non-empty the current page lies in
\* 1..ceil(|FilteredView| / 12), after any sequence of searches, category
\* selections, page clicks, Previous/Next clicks and the completion of the
\* load; Previous on page 1 and Next on the last page leave the page as it is.
C12_PageInRange ==
    /\ (mounted /\ Len(filteredArticles) > 0)
          => currentPage \in 1..PagesFor(Len(filteredArticles))
    /\ (seen.op = "previous" /\ seen.page = 1) => currentPage = 1
    /\ (seen.op = "next" /\ seen.page = PagesFor(Len(filteredArticles)))
          => currentPage = seen.page

\* Next clicked on the last of two pages
C12_Witness ==
    /\ seen.op = "next"
    /\ seen.page = 2
    /\ PagesFor(Len(filteredArticles)) = 2
    /\ currentPage = 2

\* the three failures of the request, and the success that returns no record
Failures == {"network-error", "http-error", "no-pages"}
EmptySuccess == [kind |-> "pages", ok |-> TRUE, hasPages |-> TRUE, pages |-> <<>>]

\* C13: when the request has failed in one of the three ways (fetch rejects,
\* the status is not ok, the body has no pages field), the catalog is the
\* static records alone, no remote record, and loading is false: the remote
\* set and the loading flag are the ones a success with an empty list gives.
C13_FailureIsEmptySuccess ==
    (mounted /\ ~fetching /\ response.kind \in Failures) =>
        /\ pseoPages = <<>>
        /\ allArticles = staticArticles
        /\ loading = FALSE
        /\ pseoPages = fetchPSEOPages(<<>>, EmptySuccess, <<>>).pseoPages
        /\ loading = fetchPSEOPages(<<>>, EmptySuccess, <<>>).loading

\* the request failed with a body that has no pages field, and has settled
C13_Witness ==
    /\ seen.op = "fetch"
    /\ response.kind = "no-pages"
    /\ ~fetching
    /\ ~loading
    /\ Len(allArticles) = Len(staticArticles)

\* C14: the view is loading from mount until the first attempt completes;
\* once the request has resolved or rejected, loading becomes false; from
\* then on loading never becomes true again and the remote set never changes.
C14_LoadingLifecycle ==
    /\ [](mounted /\ fetching => loading)
    /\ (mounted /\ response # NoResponse) ~> ~loading
    /\ [][~loading => (~loading' /\ pseoPages' = pseoPages)]_vars

\* a visit that went on after the load: a search typed with the remote
\* records loaded
C14_Witness ==
    /\ ~loading
    /\ ~fetching
    /\ seen.op = "search"
    /\ Len(pseoPages) = MaxRemote

\* C15: during a visit exactly one request is sent, at mount; no search,
\* category or page change and no failure of the request sends another, so
\* at most one request is outstanding.
C15_OneRequestPerVisit ==
    mounted => /\ requests = 1
               /\ (IF fetching THEN requests ELSE 0) <= 1

\* the request has failed, and the visitor has searched and picked a
\* category since
C15_Witness ==
    /\ response.kind = "network-error"
    /\ ~fetching
    /\ searchQuery # ""
    /\ selectedCategory # "All"
    /\ seen.op = "category"
    /\ requests = 1

CategoriesOf(articles) == {articles[i].category : i \in 1..Len(articles)}

\* C16: the category list is "All" followed by the distinct category labels
\* of the merged catalog, static and remote, each once, whatever the search
\* text, the selected category and the page are.
C16_CategoriesOfFullCatalog ==
    /\ categories[1] = "All"
    /\ {categories[k] : k \in 2..Len(categories)}
          = CategoriesOf(staticArticles) \cup CategoriesOf(pseoPages)
    /\ \A j, k \in 2..Len(categories) : categories[j] = categories[k] => j = k

\* a search and a category selection that leave FilteredView without some of
\* the categories, with the remote records loaded
C16_Witness ==
    /\ searchQuery # ""
    /\ selectedCategory # "All"
    /\ Len(pseoPages) > 0
    /\ \E k \in 2..Len(categories) : categories[k] \notin CategoriesOf(filteredArticles)

\* page p of FilteredView, sliced as the render slices the current page
PageAt(p) ==
    slice(filteredArticles, (p - 1) * itemsPerPage, (p - 1) * itemsPerPage + itemsPerPage)

RECURSIVE PagesUpTo(_)
PagesUpTo(p) == IF p = 0 THEN <<>> ELSE PagesUpTo(p - 1) \o PageAt(p)

\* C17: the displayed page is the contiguous slice of FilteredView that
\* starts at index (pageNumber - 1) * 12 and has at most 12 records; the
\* pages 1..ceil(|FilteredView| / 12) in order make up FilteredView, every
\* page but the last has 12 records and the last has 1 to 12.
C17_PagesPartitionView ==
    LET n == Len(filteredArticles)
        pages == PagesFor(n)
        first == (currentPage - 1) * 12
    IN /\ Len(paginatedArticles) <= 12
       /\ \A k \in 1..Len(paginatedArticles) :
             paginatedArticles[k] = filteredArticles[first + k]
       /\ Len(paginatedArticles) = (IF n - first > 12 THEN 12
                                     ELSE IF n - first < 0 THEN 0 ELSE n - first)
       /\ PagesUpTo(pages) = filteredArticles
       /\ \A p \in 1..(pages - 1) : Len(PageAt(p)) = 12
       /\ pages >= 1 => Len(PageAt(pages)) \in 1..12

\* the second of two pages is displayed and is not full
C17_Witness ==
    /\ currentPage = 2
    /\ Len(filteredArticles) > 12
    /\ Len(paginatedArticles) \in 1..11
    /\ paginatedArticles[1] = filteredArticles[13]

----------------------------------------------------------------------------
(* Properties of the quantity selector and of the scroll lock *)

\* C18: the quantity selector starts at 1 and is at least 1 in every state
\* reached through incQty, decQty and setQty.
C18_QtyAtLeastOne == qty >= 1

\* C19: once a change of showCart or active has taken effect, scrolling of
\* the page is suspended exactly when one of the two flags is true.
C19_ScrollLockFollowsFlags ==
    /\ overflowY = "hidden" <=> (showCart \/ active)
    /\ overflowY = "auto" <=> (~showCart /\ ~active)

\* the cart has been closed while the other flag is still set
C19_Witness ==
    /\ last.op = "setShowCart"
    /\ ~showCart
    /\ active
    /\ overflowY = "hidden"

\* C20: the toast of onAdd carries the quantity selector's value at the
\* call, not the quantity argument.
C20_ToastReportsQty == last.op = "add" => last.toast.qty = qty

\* onAdd called with a quantity that is not the selector's value
C20_Witness ==
    /\ last.op = "add"
    /\ last.quantity # qty
    /\ last.toast.qty = qty

----------------------------------------------------------------------------
(* Properties of the request's failures and of the line items' frame *)

\* C22: after every kind of failure of the request, a network error as well
\* as a status that is not ok, a diagnostic has been written to the log and
\* the remote set is empty.
C22_FailureIsLogged ==
    (mounted /\ ~fetching /\ response.kind \in {"network-error", "http-error"}) =>
        /\ consoleErrors >= 1
        /\ pseoPages = <<>>

\* C23: an add whose composite key is the id of a line item changes that
\* line item's quantity alone, raising it by the quantity argument; its
\* price, name, weight, image and position and every other line item stay,
\* also when the call carries another price.
C23_AddToExistingChangesQuantityOnly ==
    (last.op = "add" /\ WasPresent) =>
        /\ Len(cartItems) = Len(last.pre.cartItems)
        /\ \A i \in 1..Len(cartItems) :
              cartItems[i] = IF last.pre.cartItems[i].id = last.id
                             THEN [last.pre.cartItems[i]
                                      EXCEPT !.quantity = @ + last.quantity]
                             ELSE last.pre.cartItems[i]

\* an add of 2 to the second of two line items, with a price that is not the
\* stored one
C23_Witness ==
    /\ last.op = "add"
    /\ WasPresent
    /\ last.quantity = 2
    /\ Len(cartItems) = 2
    /\ cartItems[2].id = last.id
    /\ cartItems[2].price # last.product.price

Operations == {"add", "remove", "inc", "dec"}

\* C25: a consumer changes the line items, totalPrice and totalQuantities
\* through add, remove and increment/decrement alone: after anything else a
\* consumer can call, the three are what they were before the call.
C25_WritesOnlyThroughOperations == last.op \notin Operations => Store = last.pre

\* the record the caller keeps and passes to onAdd, as the caller built it
KeptProduct == Product("p1", 100, 1, "500g")

\* C26: onAdd leaves the record it is passed as it was: the id and the
\* quantity of the record the caller keeps are the same after every call.
C26_ArgumentUnchanged ==
    /\ product.id = KeptProduct.id
    /\ product.quantity = KeptProduct.quantity

\* C27: an increment or decrement of a line item keeps it at its position
\* and leaves every other line item, the number of line items and their
\* order as they were; the item differs in its quantity alone.
C27_ToggleKeepsPosition ==
    (last.op \in {"inc", "dec"} /\ WasPresent) =>
        /\ Len(cartItems) = Len(last.pre.cartItems)
        /\ \A i \in 1..Len(cartItems) :
              IF last.pre.cartItems[i].id = last.id
              THEN cartItems[i] = [last.pre.cartItems[i]
                                      EXCEPT !.quantity = cartItems[i].quantity]
              ELSE cartItems[i] = last.pre.cartItems[i]

\* the first of two line items has been incremented
C27_Witness ==
    /\ last.op = "inc"
    /\ Len(cartItems) = 2
    /\ cartItems[1].id = last.id
    /\ cartItems[1].quantity = last.pre.cartItems[1].quantity + 1

\* C28: while the catalog is loading the search text is empty, the selected
\* category is "All" and the page is 1: no search, category or page change
\* is applied before the first attempt has completed.
C28_NoInputWhileLoading ==
    (mounted /\ loading) =>
        /\ searchQuery = ""
        /\ selectedCategory = "All"
        /\ currentPage = 1

\* the endpoint has answered with records and the view is still loading
C28_Witness ==
    /\ mounted
    /\ loading
    /\ response.kind = "pages"
    /\ Len(response.pages) > 0
    /\ searchQuery = ""

\* C29: the selected category is an entry of the category list, "All" or the
\* category of a record of the merged catalog, whether the request has
\* succeeded, failed or is outstanding.
C29_SelectedCategoryListed ==
    mounted => /\ \E k \in 1..Len(categories) : categories[k] = selectedCategory
               /\ \/ selectedCategory = "All"
                  \/ \E i \in 1..Len(allArticles) :
                        allArticles[i].category = selectedCategory

\* a category picked after the request has failed
C29_Witness ==
    /\ mounted
    /\ selectedCategory # "All"
    /\ ~fetching
    /\ response.kind = "http-error"
    /\ seen.op = "category"

----------------------------------------------------------------------------
(* Properties of calls made in one turn *)

\* C21: two cart mutations made in one turn, before the store re-renders,
\* leave the store as the same two mutations made in separate turns do: no
\* line-item change is lost and the aggregates match the line items.
C21_SameTurnAsSeparateTurns ==
    last.op = "turn" =>
        /\ Store = last.separate
        /\ totalQuantities = SumQuantity(cartItems)

====
